---- MODULE Spec2Model ----
(***************************************************************************)
(* gohttpd: the per-request pipeline of httpd.go (requestHandler,          *)
(* showListing, isHiddenPath, the gzip writer pool).                       *)
(*                                                                         *)
(* Strings are sequences of one-character strings, so that the lexical     *)
(* operations of the code (filepath.Clean, strings.Index, filepath.Ext,    *)
(* path[0], URL.Path[1:]) are computed character by character.             *)
(***************************************************************************)
EXTENDS Integers, Sequences, FiniteSets, TLC

VARIABLES
    fs,        \* the filesystem the process runs on (whole tree, not only the root)
    listDir,   \* the -listdir flag, read once at startup
    request,   \* the request last handed to requestHandler (NoRequest before)
    response,  \* what requestHandler did with it
    pool,      \* gzPool: the idle gzip writers
    made,      \* number of gzip writers gzPool.New has built
    pc,        \* per in-flight request: its position in lines 319-335
    gz,        \* per in-flight request: the writer it holds (NoWriter if none)
    target,    \* per gzip writer: the request whose response stream it was Reset to
    started    \* number of requests that entered the body-transmission stage

vars == <<fs, listDir, request, response, pool, made, pc, gz, target, started>>

----------------------------------------------------------------------------
(* Bounds of the model *)

MaxPathLen == 4      \* request paths of every length up to this are enumerated
MaxSec == 3          \* If-Modified-Since dates range over seconds 0..MaxSec
TicksPerSec == 2     \* sub-second resolution of file modification times
MaxRequests == 3     \* concurrently handled requests (pool specification)
MaxStarts == 3       \* body transmissions started in one run (pool specification)

----------------------------------------------------------------------------
(* Static tables, lines 19-84 *)

mimes ==
    { <<<<"h", "t", "m", "l">>, "text/html">>,
      <<<<"j", "s">>, "application/javascript">>,
      <<<<"c", "s", "s">>, "text/css">>,
      <<<<"x", "m", "l">>, "text/xml">>,
      <<<<"x", "h", "t", "m", "l">>, "application/xhtml+xml">>,
      <<<<"t", "x", "t">>, "text/plain">>,
      <<<<"j", "s", "o", "n">>, "application/json">>,
      <<<<"p", "n", "g">>, "image/png">>,
      <<<<"j", "p", "g">>, "image/jpeg">>,
      <<<<"j", "p", "e", "g">>, "image/jpeg">>,
      <<<<"g", "i", "f">>, "image/gif">>,
      <<<<"s", "v", "g">>, "image/svg+xml">>,
      <<<<"w", "e", "b", "p">>, "image/webp">>,
      <<<<"i", "c", "o">>, "image/x-icon">>,
      <<<<"m", "p", "3">>, "audio/mpeg">>,
      <<<<"o", "g", "g">>, "audio/ogg">>,
      <<<<"m", "4", "a">>, "audio/x-m4a">>,
      <<<<"a", "v", "i">>, "video/x-msvideo">>,
      <<<<"m", "p", "4">>, "video/mp4">>,
      <<<<"m", "o", "v">>, "video/quicktime">>,
      <<<<"t", "s">>, "video/mp2t">>,
      <<<<"w", "e", "b", "m">>, "video/webm">>,
      <<<<"m", "3", "u", "8">>, "application/vnd.apple.mpegurl">>,
      <<<<"e", "o", "t">>, "application/vnd.ms-fontobject">>,
      <<<<"t", "t", "f">>, "font/ttf">>,
      <<<<"w", "o", "f", "f">>, "font/woff">>,
      <<<<"w", "o", "f", "f", "2">>, "font/woff2">>,
      <<<<"o", "t", "f">>, "font/otf">>,
      <<<<"p", "d", "f">>, "application/pdf">>,
      <<<<"c", "s", "v">>, "text/csv">>,
      <<<<"7", "z">>, "application/x-ms-compressed">>,
      <<<<"z", "i", "p">>, "application/zip">>,
      <<<<"r", "a", "r">>, "application/x-rar-compressed">> }

compressExts ==
    << <<"c", "s", "s">>,
       <<"c", "s", "v">>,
       <<"e", "o", "t">>,
       <<"h", "t", "m", "l">>,
       <<"j", "s">>,
       <<"j", "s", "o", "n">>,
       <<"o", "t", "f">>,
       <<"s", "v", "g">>,
       <<"t", "t", "f">>,
       <<"t", "x", "t">>,
       <<"x", "h", "t", "m", "l">>,
       <<"x", "m", "l">> >>

indexFiles ==
    << <<"i", "n", "d", "e", "x", ".", "h", "t", "m", "l">>,
       <<"i", "n", "d", "e", "x", ".", "x", "h", "t", "m", "l">> >>

\* the size above which a body is compressed, line 321
GzipThreshold == 1024

----------------------------------------------------------------------------
(* String operations the handler calls *)

\* strings.Index(s, sub): 0-based index of the first occurrence, -1 if none
StringsIndex(s, sub) ==
    LET hits == { i \in 1..(Len(s) - Len(sub) + 1) :
                      SubSeq(s, i, i + Len(sub) - 1) = sub }
    IN  IF hits = {} THEN -1
        ELSE (CHOOSE i \in hits : \A j \in hits : i <= j) - 1

\* strings.Contains(s, sub)
StringsContains(s, sub) == StringsIndex(s, sub) >= 0

\* stringInSlice, lines 186-194
stringInSlice(a, list) == \E k \in 1..Len(list) : list[k] = a

\* the ".." case of filepath.Clean: drop the last element of out, never below dotdot
RECURSIVE CleanBacktrack(_, _, _)
CleanBacktrack(out, w, dotdot) ==
    IF w > dotdot /\ out[w + 1] # "/" THEN CleanBacktrack(out, w - 1, dotdot)
    ELSE SubSeq(out, 1, w)

\* index one past the end of the path element starting at r
RECURSIVE ElementEnd(_, _)
ElementEnd(path, r) ==
    IF r <= Len(path) /\ path[r] # "/" THEN ElementEnd(path, r + 1) ELSE r

\* the loop of filepath.Clean (r is 1-based; out is the output buffer)
RECURSIVE CleanLoop(_, _, _, _, _)
CleanLoop(path, r, out, dotdot, rooted) ==
    LET n == Len(path) IN
    IF r > n THEN out
    ELSE IF path[r] = "/" THEN
        CleanLoop(path, r + 1, out, dotdot, rooted)
    ELSE IF path[r] = "." /\ (r = n \/ path[r + 1] = "/") THEN
        CleanLoop(path, r + 1, out, dotdot, rooted)
    ELSE IF path[r] = "." /\ path[r + 1] = "." /\ (r + 1 = n \/ path[r + 2] = "/") THEN
        IF Len(out) > dotdot THEN
            CleanLoop(path, r + 2, CleanBacktrack(out, Len(out) - 1, dotdot),
                      dotdot, rooted)
        ELSE IF ~rooted THEN
            LET o2 == (IF Len(out) > 0 THEN out \o <<"/">> ELSE out) \o <<".", ".">>
            IN  CleanLoop(path, r + 2, o2, Len(o2), rooted)
        ELSE CleanLoop(path, r + 2, out, dotdot, rooted)
    ELSE
        LET sep == (rooted /\ Len(out) # 1) \/ (~rooted /\ Len(out) # 0)
            e   == ElementEnd(path, r)
            o1  == (IF sep THEN out \o <<"/">> ELSE out) \o SubSeq(path, r, e - 1)
        IN  CleanLoop(path, e, o1, dotdot, rooted)

\* filepath.Clean(path), as called on line 232 (Unix separators)
Clean(path) ==
    IF path = <<>> THEN <<".">>
    ELSE LET rooted == path[1] = "/"
             out == IF rooted THEN CleanLoop(path, 2, <<"/">>, 1, TRUE)
                    ELSE CleanLoop(path, 1, <<>>, 0, FALSE)
         IN  IF out = <<>> THEN <<".">> ELSE out

\* filepath.Ext(path), as called on line 286: the suffix from the last '.' of
\* the last element, empty if that element has none
RECURSIVE ExtFrom(_, _)
ExtFrom(path, i) ==
    IF i < 1 \/ path[i] = "/" THEN <<>>
    ELSE IF path[i] = "." THEN SubSeq(path, i, Len(path))
    ELSE ExtFrom(path, i - 1)

\* lines 286-289: the extension without its dot
Extension(path) ==
    LET e == ExtFrom(path, Len(path))
    IN  IF e # <<>> THEN SubSeq(e, 2, Len(e)) ELSE e

\* lines 291-294
MimeType(extension) ==
    IF \E m \in mimes : m[1] = extension
    THEN (CHOOSE m \in mimes : m[1] = extension)[2]
    ELSE "application/octet-stream"

\* mutant of isHiddenPath: only a leading '.' is looked for
isHiddenPathLeadingOnly(path) == Len(path) > 1 /\ path[1] = "."

\* isHiddenPath, lines 196-198
isHiddenPath(path) ==
    (Len(path) > 1 /\ path[1] = ".") \/ StringsIndex(path, <<"/", ".">>) # -1

----------------------------------------------------------------------------
(* The filesystem the os calls of the handler read.

   A filesystem is a set of nodes; a node's key is its absolute location as a
   sequence of names.  The process has changed directory to the server root
   (line 377), so relative paths resolve from Cwd and absolute ones from /. *)

NmA    == <<"a">>
NmDotA == <<".", "a">>
NmAA   == <<"a", ".", "a">>
NmAJs  == <<"a", ".", "j", "s">>
NmSCss == <<"s", ".", "c", "s", "s">>
NmTTxt == <<"t", ".", "t", "x", "t">>
NmRoot == <<"s">>

\* the server root: the directory /s
Cwd == <<NmRoot>>

Node(key, isDir, size, mtime, readable) ==
    [key |-> key, isDir |-> isDir, size |-> size, mtime |-> mtime,
     readable |-> readable]

Dir(key)  == Node(key, TRUE, 4096, 9, TRUE)

\* what os.Stat returns with a non-nil error
NoFile == Node(<<>>, FALSE, -1, -1, FALSE)

\* present in every filesystem: /, a file /a outside the root, the root /s,
\* the directory /s/a and some files of several sizes and modification times
BaseNodes ==
    { Dir(<<>>),
      Node(<<NmA>>, FALSE, 2000, 3, TRUE),
      Dir(Cwd),
      Dir(Cwd \o <<NmA>>),
      Node(Cwd \o <<NmA, NmA>>, FALSE, 5000, 2 * TicksPerSec, TRUE),
      Node(Cwd \o <<NmAA>>, FALSE, 2000, 2 * TicksPerSec + 1, TRUE),
      Node(Cwd \o <<NmAJs>>, FALSE, 1025, 2 * TicksPerSec + 1, TRUE),
      Node(Cwd \o <<NmSCss>>, FALSE, 1024, TicksPerSec, TRUE),
      Node(Cwd \o <<NmTTxt>>, FALSE, 2000, TicksPerSec, FALSE) }

\* the nodes that differ from one filesystem to the next
Hidden1 == Node(Cwd \o <<NmDotA>>, FALSE, 2000, 3, TRUE)
Hidden2 == Node(Cwd \o <<NmA, NmDotA>>, FALSE, 2000, 3, TRUE)
IdxHtml(d, isDir) ==
    Node(d \o <<indexFiles[1]>>, isDir, IF isDir THEN 4096 ELSE 2000,
         2 * TicksPerSec, TRUE)
IdxXhtml(d) == Node(d \o <<indexFiles[2]>>, FALSE, 1500, TicksPerSec + 1, TRUE)
Locked == Node(Cwd \o <<NmA>>, TRUE, 4096, 9, FALSE)

FileSystems ==
    { BaseNodes,
      BaseNodes \cup {Hidden1, Hidden2},
      BaseNodes \cup {Hidden2, IdxHtml(Cwd \o <<NmA>>, FALSE),
                      IdxXhtml(Cwd \o <<NmA>>)},
      BaseNodes \cup {IdxHtml(Cwd \o <<NmA>>, TRUE), IdxXhtml(Cwd \o <<NmA>>),
                      IdxHtml(Cwd, FALSE)},
      BaseNodes \cup {IdxXhtml(Cwd)},
      (BaseNodes \ {Dir(Cwd \o <<NmA>>)}) \cup {Locked, Hidden2} }

\* the names of a path, split at the separators (empty names dropped)
RECURSIVE SplitFrom(_, _)
SplitFrom(path, r) ==
    IF r > Len(path) THEN <<>>
    ELSE IF path[r] = "/" THEN SplitFrom(path, r + 1)
    ELSE LET e == ElementEnd(path, r)
         IN  <<SubSeq(path, r, e - 1)>> \o SplitFrom(path, e)

Lookup(fsys, key) ==
    IF \E n \in fsys : n.key = key THEN CHOOSE n \in fsys : n.key = key
    ELSE NoFile

\* the kernel's walk of a path: every name but the last must be a directory
RECURSIVE Walk(_, _, _, _)
Walk(fsys, cur, names, k) ==
    IF k > Len(names) THEN Lookup(fsys, cur)
    ELSE IF ~Lookup(fsys, cur).isDir THEN NoFile
    ELSE IF names[k] = <<".">> THEN Walk(fsys, cur, names, k + 1)
    ELSE IF names[k] = <<".", ".">> THEN
        Walk(fsys, IF cur = <<>> THEN cur ELSE SubSeq(cur, 1, Len(cur) - 1),
             names, k + 1)
    ELSE Walk(fsys, cur \o <<names[k]>>, names, k + 1)

\* os.Stat(path), lines 238 and 258
Stat(fsys, path) ==
    IF path = <<>> THEN NoFile
    ELSE Walk(fsys, IF path[1] = "/" THEN <<>> ELSE Cwd, SplitFrom(path, 1), 1)

\* os.Open(path), line 278: the file must exist and be readable
OpenOk(fsys, path) == Stat(fsys, path) # NoFile /\ Stat(fsys, path).readable

\* byte order of the characters the model uses
CharOrder ==
    <<".", "/", "2", "3", "4", "7", "8", "a", "b", "c", "d", "e", "f", "g", "h",
      "i", "j", "k", "l", "m", "n", "o", "p", "q", "r", "s", "t", "u", "v", "w",
      "x", "y", "z">>

Rank(c) == CHOOSE k \in 1..Len(CharOrder) : CharOrder[k] = c

RECURSIVE NameLess(_, _)
NameLess(a, b) ==
    IF a = <<>> THEN b # <<>>
    ELSE IF b = <<>> THEN FALSE
    ELSE IF a[1] = b[1] THEN NameLess(Tail(a), Tail(b))
    ELSE Rank(a[1]) < Rank(b[1])

RECURSIVE SortByName(_)
SortByName(nodes) ==
    IF nodes = {} THEN <<>>
    ELSE LET first == CHOOSE n \in nodes : \A m \in nodes \ {n} :
                          NameLess(n.key[Len(n.key)], m.key[Len(m.key)])
         IN  <<first>> \o SortByName(nodes \ {first})

\* the os.FileInfo of a node, as the listing template reads it
FileInfo(n) ==
    [Name |-> n.key[Len(n.key)], IsDir |-> n.isDir, Size |-> n.size,
     ModTime |-> n.mtime]

\* ioutil.ReadDir(path), line 201: the entries sorted by name
ReadDirOk(fsys, path) ==
    LET d == Stat(fsys, path) IN d # NoFile /\ d.isDir /\ d.readable

ReadDir(fsys, path) ==
    LET d == Stat(fsys, path)
        kids == { n \in fsys : Len(n.key) = Len(d.key) + 1
                               /\ SubSeq(n.key, 1, Len(d.key)) = d.key }
        sorted == SortByName(kids)
    IN  [k \in 1..Len(sorted) |-> FileInfo(sorted[k])]

----------------------------------------------------------------------------
(* Requests and responses *)

\* A header value that is not set is <<>>; one that is set is <<value>>.
Unset == <<>>

NoHeaders ==
    [LastModified |-> Unset, ContentType |-> Unset, ContentEncoding |-> Unset,
     Location |-> Unset]

\* An HTTP date: whole seconds.  A header that is no date parses to an error.
HttpDate(sec) == [kind |-> "date", sec |-> sec]
NoHeader      == [kind |-> "empty", sec |-> 0]
BadDate       == [kind |-> "garbage", sec |-> 0]

\* time.Time.Truncate(time.Second), line 299 (times are in ticks)
TruncateSecond(t) == (t \div TicksPerSec) * TicksPerSec

\* Time.Format(http.TimeFormat), line 300: the format has no sub-second field
FormatHttpTime(t) == HttpDate(t \div TicksPerSec)

\* time.Parse(http.TimeFormat, value), line 306
ParseHttpTime(h) ==
    IF h.kind = "date" THEN [err |-> FALSE, t |-> h.sec * TicksPerSec]
    ELSE [err |-> TRUE, t |-> 0]

Access(op, path) == [op |-> op, path |-> path]

\* what one call of requestHandler did: the status and headers written, the
\* body, the os calls made in order, the handler's final path and stat, and
\* whether it left by a panic
Response(status, headers, body, rows, accesses, path, stat, panicked) ==
    [status |-> status, headers |-> headers, body |-> body, rows |-> rows,
     accesses |-> accesses, path |-> path, stat |-> stat, panicked |-> panicked]

\* http.Error(writer, message, code) followed by return
HttpError(code, accesses) ==
    Response(code, NoHeaders, "error", <<>>, accesses, <<>>, NoFile, FALSE)

\* the rows the listing template renders, lines 136-160
TemplateRow(f) ==
    [href |-> IF f.IsDir THEN f.Name \o <<"/">> ELSE f.Name,
     text |-> IF f.IsDir THEN f.Name \o <<"/">> ELSE f.Name,
     size |-> IF f.IsDir THEN <<>> ELSE <<f.Size>>,
     modified |-> IF f.IsDir THEN <<>> ELSE <<f.ModTime \div (60 * TicksPerSec)>>]

\* mutant of TemplateShows: the template has no condition on the name
TemplateShowsAll(f) == TRUE

\* line 137: {{ if (ne (index .Name 0) 46) }}
TemplateShows(f) == f.Name[1] # "."

RECURSIVE TemplateRows(_, _)
TemplateRows(files, k) ==
    IF k > Len(files) THEN <<>>
    ELSE (IF TemplateShows(files[k]) THEN <<TemplateRow(files[k])>> ELSE <<>>)
         \o TemplateRows(files, k + 1)

\* showListing, lines 200-220.  The template is a constant that parses; Execute
\* returns the writer's error when a write to the client fails.
showListing(fsys, req, path, accesses) ==
    LET acc == Append(accesses, Access("readdir", path)) IN
    IF ~ReadDirOk(fsys, path) THEN HttpError(404, acc)
    ELSE LET rows == TemplateRows(ReadDir(fsys, path), 1) IN
         IF req.writeFails
         THEN Response(200, NoHeaders, "listing", <<>>, acc, path, NoFile, TRUE)
         ELSE Response(200, NoHeaders, "listing", rows, acc, path, NoFile, FALSE)

\* mutant of ShouldCompress: a body of exactly the threshold size is compressed
ShouldCompressFromThreshold(size, acceptEnc, extension) ==
    /\ size >= GzipThreshold
    /\ StringsContains(acceptEnc, <<"g", "z", "i", "p">>)
    /\ extension # <<>>
    /\ stringInSlice(extension, compressExts)

\* lines 321-322
ShouldCompress(size, acceptEnc, extension) ==
    /\ size > GzipThreshold
    /\ StringsContains(acceptEnc, <<"g", "z", "i", "p">>)
    /\ extension # <<>>
    /\ stringInSlice(extension, compressExts)

\* mutant of NotModified: a file modified exactly at the date counts as modified
NotModifiedStrict(lastModified, since) == lastModified < since

\* line 309
NotModified(lastModified, since) == lastModified < since \/ lastModified = since

\* lines 278-335: path is a file that stat describes
ServeFile(fsys, req, path, stat, accesses) ==
    LET acc == Append(accesses, Access("open", path)) IN
    IF ~OpenOk(fsys, path) THEN HttpError(404, acc)
    ELSE
    LET extension == Extension(path)
        lastModified == TruncateSecond(stat.mtime)
        hdrs == [NoHeaders EXCEPT !.LastModified = <<FormatHttpTime(lastModified)>>,
                                  !.ContentType = <<MimeType(extension)>>]
        since == ParseHttpTime(req.ifModifiedSince)
    IN  IF ~since.err /\ NotModified(lastModified, since.t)
        THEN Response(304, hdrs, "none", <<>>, acc, path, stat, FALSE)
        ELSE IF req.method = "HEAD"
        THEN Response(200, hdrs, "none", <<>>, acc, path, stat, FALSE)
        ELSE IF ShouldCompress(stat.size, req.acceptEncoding, extension)
        THEN Response(200, [hdrs EXCEPT !.ContentEncoding = <<"gzip">>], "gzip",
                      <<>>, acc, path, stat, FALSE)
        ELSE Response(200, hdrs, "raw", <<>>, acc, path, stat, FALSE)

\* fmt.Sprintf("%s/%s", path, i), line 257
IndexPath(path, i) == path \o <<"/">> \o i

\* mutant of ProbeIndex: a candidate that is a directory is taken too
RECURSIVE ProbeIndexAnyKind(_, _, _, _, _)
ProbeIndexAnyKind(fsys, path, k, stat, accesses) ==
    IF k > Len(indexFiles)
    THEN [found |-> FALSE, path |-> path, stat |-> stat, accesses |-> accesses]
    ELSE LET indexPath == IndexPath(path, indexFiles[k])
             st == Stat(fsys, indexPath)
             acc == Append(accesses, Access("stat", indexPath))
         IN  IF st # NoFile
             THEN [found |-> TRUE, path |-> indexPath, stat |-> st, accesses |-> acc]
             ELSE ProbeIndexAnyKind(fsys, path, k + 1, st, acc)

\* the loop of lines 256-265 from candidate k on; stat is assigned by every probe
RECURSIVE ProbeIndex(_, _, _, _, _)
ProbeIndex(fsys, path, k, stat, accesses) ==
    IF k > Len(indexFiles)
    THEN [found |-> FALSE, path |-> path, stat |-> stat, accesses |-> accesses]
    ELSE LET indexPath == IndexPath(path, indexFiles[k])
             st == Stat(fsys, indexPath)
             acc == Append(accesses, Access("stat", indexPath))
         IN  IF st # NoFile /\ ~st.isDir
             THEN [found |-> TRUE, path |-> indexPath, stat |-> st, accesses |-> acc]
             ELSE ProbeIndex(fsys, path, k + 1, st, acc)

\* mutant of RedirectLocation: the leading '/' is left out
RedirectLocationRelative(path) == path \o <<"/">>

\* fmt.Sprintf("/%s/", path), line 249
RedirectLocation(path) == <<"/">> \o path \o <<"/">>

\* lines 244-276: path is a directory
ServeDirectory(fsys, ld, req, path, stat, accesses) ==
    LET lastChar == req.path[Len(req.path)] IN
    IF path # <<".">> /\ lastChar # "/"
    THEN Response(301, [NoHeaders EXCEPT !.Location = <<RedirectLocation(path)>>],
                  "none", <<>>, accesses, path, stat, FALSE)
    ELSE LET probe == ProbeIndex(fsys, path, 1, stat, accesses) IN
         IF ~probe.found
         THEN IF ld THEN showListing(fsys, req, path, probe.accesses)
                    ELSE HttpError(404, probe.accesses)
         ELSE ServeFile(fsys, req, probe.path, probe.stat, probe.accesses)

\* line 227
MethodAllowed(method) == ~(method # "GET" /\ method # "HEAD")

\* line 232: filepath.Clean(request.URL.Path[1:])
RequestPath(urlPath) == Clean(SubSeq(urlPath, 2, Len(urlPath)))

\* mutant of requestHandler: the method is looked at after the hidden-path
\* check and the stat
requestHandlerGateLast(fsys, ld, req) ==
    LET path == RequestPath(req.path) IN
    IF isHiddenPath(path) THEN HttpError(404, <<>>)
    ELSE
    LET stat == Stat(fsys, path)
        acc  == <<Access("stat", path)>>
    IN  IF stat = NoFile THEN HttpError(404, acc)
        ELSE IF ~MethodAllowed(req.method) THEN HttpError(405, acc)
        ELSE IF stat.isDir THEN ServeDirectory(fsys, ld, req, path, stat, acc)
        ELSE ServeFile(fsys, req, path, stat, acc)

\* requestHandler, lines 222-335
requestHandler(fsys, ld, req) ==
    IF ~MethodAllowed(req.method) THEN HttpError(405, <<>>)
    ELSE
    LET path == RequestPath(req.path) IN
    IF isHiddenPath(path) THEN HttpError(404, <<>>)
    ELSE
    LET stat == Stat(fsys, path)
        acc  == <<Access("stat", path)>>
    IN  IF stat = NoFile THEN HttpError(404, acc)
        ELSE IF stat.isDir THEN ServeDirectory(fsys, ld, req, path, stat, acc)
        ELSE ServeFile(fsys, req, path, stat, acc)

----------------------------------------------------------------------------
(* The requests the model hands to requestHandler *)

Alphabet == {"/", ".", "a"}

\* every URL path "/" + s with s over Alphabet, up to MaxPathLen characters
GeneratedPaths ==
    UNION { { <<"/">> \o s : s \in [1..n -> Alphabet] } : n \in 0..(MaxPathLen - 1) }

\* longer paths that name the files of the filesystems above
SamplePaths ==
    { <<"/">> \o NmAJs,
      <<"/">> \o NmSCss,
      <<"/">> \o NmTTxt,
      <<"/">> \o indexFiles[1],
      <<"/", "a", "/">> \o indexFiles[1],
      <<"/", "a", "/">> \o indexFiles[2],
      <<"/", "a", "/", ".", "a">>,
      <<"/", "a", "/", ".", ".", "/">> \o NmAJs,
      <<"/", "a", "/", ".", ".", "/", "a">>,
      <<"/", "a", "/", "/", "a", "/">>,
      <<"/", ".", "/", "a", "/", ".", "/">>,
      <<"/", "/", "s", "/">> \o NmAJs,
      <<"/", "/", "s", "/", "a", "/">> }

Paths == GeneratedPaths \cup SamplePaths

Methods == {"GET", "HEAD", "POST"}

IfModifiedSinceValues == {NoHeader, BadDate} \cup { HttpDate(sec) : sec \in 0..MaxSec }

AcceptEncodingValues ==
    { <<>>,
      <<"g", "z", "i", "p">>,
      <<"b", "r", ",", "g", "z", "i", "p">>,
      <<"g", "z", "i">> }

Request(method, path, ims, ae, writeFails) ==
    [method |-> method, path |-> path, ifModifiedSince |-> ims,
     acceptEncoding |-> ae, writeFails |-> writeFails]

\* every combination with a working client connection, and GET/HEAD requests
\* without conditional headers on a connection whose writes fail
Requests ==
    { Request(m, p, i, e, FALSE) :
          m \in Methods, p \in Paths, i \in IfModifiedSinceValues,
          e \in AcceptEncodingValues }
    \cup { Request(m, p, NoHeader, <<>>, TRUE) : m \in {"GET", "HEAD"}, p \in Paths }

NoRequest == Request("NONE", <<"/">>, NoHeader, <<>>, FALSE)
NoResponse == Response(0, NoHeaders, "none", <<>>, <<>>, <<>>, NoFile, FALSE)

----------------------------------------------------------------------------
(* The gzip writer pool, lines 166-171 and 319-335, under concurrent requests *)

Units == 1..MaxRequests
NoWriter == 0

\* the requests of the pool specification: bodies above and below the
\* threshold, with and without gzip accepted
PoolRequests ==
    { Request("GET", p, NoHeader, e, FALSE) :
          p \in { <<"/">> \o NmAJs, <<"/">> \o NmSCss, <<"/">> \o NmAA },
          e \in { <<>>, <<"g", "z", "i", "p">> } }

\* mutant of DeferredCalls: Put is deferred after Close, so it runs first
DeferredCallsPutFirst == <<"close", "put">>

\* the deferred calls of lines 328-329 in the order they are registered; they
\* run last registered first
DeferredCalls == <<"put", "close">>

DeferPc(k) == IF k = 2 THEN "defer2" ELSE "defer1"

\* position after deferred call k has run
AfterDefer(k) == IF k = 1 THEN "done" ELSE DeferPc(k - 1)

PoolIdle ==
    /\ pool = {}
    /\ made = 0
    /\ pc = [r \in Units |-> "idle"]
    /\ gz = [r \in Units |-> NoWriter]
    /\ target = <<>>
    /\ started = 0

PoolVars == <<pool, made, pc, gz, target, started>>

\* a request reaches line 319 (or returns before it)
Begin(r) ==
    /\ pc[r] = "idle"
    /\ started < MaxStarts
    /\ \E req \in PoolRequests :
          LET body == requestHandler(fs, listDir, req).body
          IN  pc' = [pc EXCEPT ![r] = IF body = "gzip" THEN "get"
                                      ELSE IF body = "raw" THEN "raw" ELSE "done"]
    /\ started' = started + 1
    /\ gz' = [gz EXCEPT ![r] = NoWriter]
    /\ UNCHANGED <<pool, made, target, fs, listDir, request, response>>

\* line 333: io.Copy(writer, file)
RawCopy(r) ==
    /\ pc[r] = "raw"
    /\ pc' = [pc EXCEPT ![r] = "done"]
    /\ UNCHANGED <<pool, made, gz, target, started, fs, listDir, request, response>>

\* line 325: gzPool.Get() removes an idle writer from the pool and returns it,
\* or (the pool empty or ignored) returns what New builds
PoolGet(r) ==
    /\ pc[r] = "get"
    /\ \/ \E w \in pool :
             /\ pool' = pool \ {w}
             /\ gz' = [gz EXCEPT ![r] = w]
             /\ UNCHANGED <<made, target>>
       \/ /\ made' = made + 1
          /\ gz' = [gz EXCEPT ![r] = made + 1]
          /\ target' = Append(target, NoWriter)
          /\ UNCHANGED pool
    /\ pc' = [pc EXCEPT ![r] = "reset"]
    /\ UNCHANGED <<started, fs, listDir, request, response>>

\* line 326: gz.Reset(writer)
GzReset(r) ==
    /\ pc[r] = "reset"
    /\ target' = [target EXCEPT ![gz[r]] = r]
    /\ pc' = [pc EXCEPT ![r] = "copy"]
    /\ UNCHANGED <<pool, made, gz, started, fs, listDir, request, response>>

\* line 331: io.Copy through the writer; returning runs the deferred calls
GzCopy(r) ==
    /\ pc[r] = "copy"
    /\ pc' = [pc EXCEPT ![r] = DeferPc(Len(DeferredCalls))]
    /\ UNCHANGED <<pool, made, gz, target, started, fs, listDir, request, response>>

\* line 329: gz.Close() writes the trailer through the writer
GzClose(r) ==
    /\ \E k \in 1..Len(DeferredCalls) :
          /\ pc[r] = DeferPc(k)
          /\ DeferredCalls[k] = "close"
          /\ pc' = [pc EXCEPT ![r] = AfterDefer(k)]
    /\ UNCHANGED <<pool, made, gz, target, started, fs, listDir, request, response>>

\* line 328: gzPool.Put(gz)
PoolPut(r) ==
    /\ \E k \in 1..Len(DeferredCalls) :
          /\ pc[r] = DeferPc(k)
          /\ DeferredCalls[k] = "put"
          /\ pc' = [pc EXCEPT ![r] = AfterDefer(k)]
    /\ pool' = pool \cup {gz[r]}
    /\ UNCHANGED <<made, gz, target, started, fs, listDir, request, response>>

\* requestHandler has returned; the unit takes the next request
Finish(r) ==
    /\ pc[r] = "done"
    /\ pc' = [pc EXCEPT ![r] = "idle"]
    /\ UNCHANGED <<pool, made, gz, target, started, fs, listDir, request, response>>

----------------------------------------------------------------------------
(* Specifications *)

\* handlerWrap, lines 341-343: the serving unit is handed a request and calls
\* requestHandler on it
Handle(req) ==
    /\ request = NoRequest
    /\ request' = req
    /\ response' = requestHandler(fs, listDir, req)
    /\ UNCHANGED <<fs, listDir, pool, made, pc, gz, target, started>>

Init ==
    /\ fs \in FileSystems
    /\ listDir \in BOOLEAN
    /\ request = NoRequest
    /\ response = NoResponse
    /\ PoolIdle

\* handlerWrap, lines 345-360: the request is logged and the unit is free again
Return ==
    /\ request # NoRequest
    /\ request' = NoRequest
    /\ response' = NoResponse
    /\ UNCHANGED <<fs, listDir, pool, made, pc, gz, target, started>>

Next == (\E req \in Requests : Handle(req)) \/ Return

Spec == Init /\ [][Next]_vars

\* MaxRequests units handling body transmissions concurrently
InitPool ==
    /\ fs = BaseNodes
    /\ listDir = FALSE
    /\ request = NoRequest
    /\ response = NoResponse
    /\ PoolIdle

NextPool ==
    \E r \in Units :
        \/ Begin(r)
        \/ RawCopy(r)
        \/ PoolGet(r)
        \/ GzReset(r)
        \/ GzCopy(r)
        \/ GzClose(r)
        \/ PoolPut(r)
        \/ Finish(r)

SpecPool == InitPool /\ [][NextPool]_vars

----------------------------------------------------------------------------
(* Properties *)

\* requestHandler has been called on request and response is what it did
Handled == request # NoRequest

Gzip == <<"g", "z", "i", "p">>

\* the path the handler works on, and the node it names
NormalPath == RequestPath(request.path)
NormalNode == Stat(fs, NormalPath)

\* some name of the normalized path starts with '.', the root "." excepted
HasHiddenSegment(path) ==
    /\ path # <<".">>
    /\ \E k \in 1..Len(SplitFrom(path, 1)) : SplitFrom(path, 1)[k][1] = "."

\* the request got as far as a file it could open: the handler serves it
\* (200) or finds it not modified (304)
FileResolved == response.stat # NoFile /\ ~response.stat.isDir

\* C1: a GET or HEAD request whose normalized path has a name starting with
\* '.' is answered 404 before any stat, open or directory read, and the
\* response is the same on every filesystem, whether the file exists or not.
C1_HiddenPathIs404 ==
    (Handled /\ request.method \in {"GET", "HEAD"} /\ HasHiddenSegment(NormalPath))
    => /\ response.status = 404
       /\ response.accesses = <<>>
       /\ \A other \in FileSystems :
              requestHandler(other, listDir, request) = response

\* a hidden file that exists on disk is requested and refused
C1_Witness ==
    /\ Handled
    /\ request.method = "GET"
    /\ request.path = <<"/", "a", "/", ".", "a">>
    /\ Lookup(fs, Cwd \o <<NmA, NmDotA>>) # NoFile
    /\ response.status = 404

\* a path handed to stat, open or readdir stays inside the server root: it is
\* relative and has no ".." name
InsideRoot(path) ==
    /\ path # <<>>
    /\ path[1] # "/"
    /\ \A k \in 1..Len(SplitFrom(path, 1)) : SplitFrom(path, 1)[k] # <<".", ".">>

\* C2: whatever the URL path, every path passed to stat, open or readdir is a
\* relative path inside the server root.
C2_AccessesInsideRoot ==
    Handled => \A k \in 1..Len(response.accesses) :
                   InsideRoot(response.accesses[k].path)

\* C3: a request that resolves to a file is answered 304 with no body exactly
\* when If-Modified-Since is an HTTP date and the file's modification time,
\* in whole seconds, is at or before it; without a valid date there is no 304.
C3_NotModifiedExactly ==
    (Handled /\ request.method \in {"GET", "HEAD"} /\ FileResolved)
    => LET ims == request.ifModifiedSince
           fresh == ims.kind = "date"
                    /\ response.stat.mtime \div TicksPerSec <= ims.sec
       IN  /\ response.status = 304 <=> fresh
           /\ response.status = 304 => response.body = "none"
           /\ ims.kind # "date" => response.status # 304

\* the equality case, with a sub-second part that truncation drops
C3_Witness ==
    /\ Handled
    /\ request.path = <<"/">> \o NmAJs
    /\ FileResolved
    /\ request.ifModifiedSince.kind = "date"
    /\ response.stat.mtime \div TicksPerSec = request.ifModifiedSince.sec
    /\ response.stat.mtime % TicksPerSec # 0
    /\ response.status = 304

\* C4: a GET that sends a file body compresses it, and sets Content-Encoding:
\* gzip, exactly when the size is above 1024, the extension is compressible
\* and Accept-Encoding contains "gzip"; no other response has the header.
C4_GzipExactly ==
    Handled
    => LET ext == Extension(response.path)
           accepted == \E i \in 1..(Len(request.acceptEncoding) - 3) :
                           SubSeq(request.acceptEncoding, i, i + 3) = Gzip
           eligible == /\ response.stat.size > 1024
                       /\ ext \in { compressExts[k] : k \in 1..Len(compressExts) }
                       /\ accepted
           sendsFile == /\ request.method = "GET"
                        /\ FileResolved
                        /\ response.status = 200
       IN  /\ sendsFile => (response.body = "gzip" <=> eligible)
           /\ sendsFile => (response.body = "raw" <=> ~eligible)
           /\ response.headers.ContentEncoding = <<"gzip">>
                  <=> (sendsFile /\ response.body = "gzip")
           /\ response.headers.ContentEncoding \in {Unset, <<"gzip">>}
           /\ (response.status \in {301, 304, 404, 405} \/ request.method = "HEAD")
                  => response.headers.ContentEncoding = Unset

\* a compressible file of exactly 1024 bytes, gzip accepted, sent uncompressed
C4_Witness ==
    /\ Handled
    /\ request.method = "GET"
    /\ response.status = 200
    /\ response.stat.size = 1024
    /\ Extension(response.path) = <<"c", "s", "s">>
    /\ request.acceptEncoding = Gzip
    /\ response.body = "raw"

\* the request names an existing directory other than the server root and
\* its URL path has no trailing '/'
DirectoryWithoutSlash ==
    /\ Handled
    /\ request.method \in {"GET", "HEAD"}
    /\ ~HasHiddenSegment(NormalPath)
    /\ NormalNode # NoFile
    /\ NormalNode.isDir
    /\ NormalNode.key # Cwd
    /\ request.path[Len(request.path)] # "/"

\* the request stops at the redirect: one stat, no probe, no listing, no body
StopsAtRedirect ==
    /\ response.status = 301
    /\ response.accesses = <<Access("stat", NormalPath)>>
    /\ response.body = "none"
    /\ response.rows = <<>>

\* C5 as stated, for directories inside the server root: the redirect's
\* Location is the request path plus '/'.
C5_LocationIsRequestPath ==
    (DirectoryWithoutSlash /\ InsideRoot(NormalPath))
    => /\ StopsAtRedirect
       /\ response.headers.Location = <<request.path \o <<"/">>>>

\* C5 as amended: the redirect's Location is '/', the normalized path, '/'.
C5_LocationIsNormalizedPath ==
    DirectoryWithoutSlash
    => /\ StopsAtRedirect
       /\ response.headers.Location = << <<"/">> \o NormalPath \o <<"/">> >>

\* a redirect whose Location differs from the request path plus '/'
C5_Witness ==
    /\ DirectoryWithoutSlash
    /\ response.status = 301
    /\ request.path = <<"/", ".", "/", "a">>
    /\ response.headers.Location = << <<"/", "a", "/">> >>

\* the request names an existing directory and its URL path ends with '/'
DirectoryWithSlash ==
    /\ Handled
    /\ request.method \in {"GET", "HEAD"}
    /\ ~HasHiddenSegment(NormalPath)
    /\ NormalNode # NoFile
    /\ NormalNode.isDir
    /\ request.path[Len(request.path)] = "/"

\* the index candidates of the requested directory that exist and are files
Qualifying ==
    { k \in 1..Len(indexFiles) :
          LET n == Lookup(fs, NormalNode.key \o <<indexFiles[k]>>)
          IN  n # NoFile /\ ~n.isDir }

\* C6: for a directory with a trailing '/', the candidates are probed in the
\* order index.html, index.xhtml and the first that is an existing file is
\* served with its own size, time and type; a listing is rendered only when
\* none qualifies and listing is on, and it is 404 when none qualifies and
\* listing is off.
C6_IndexBeforeListing ==
    DirectoryWithSlash
    => IF Qualifying # {}
       THEN LET k == CHOOSE i \in Qualifying : \A j \in Qualifying : i <= j
                n == Lookup(fs, NormalNode.key \o <<indexFiles[k]>>)
            IN  /\ response.body # "listing"
                /\ response.rows = <<>>
                /\ Len(response.accesses) = k + 2
                /\ \A j \in 1..k :
                       response.accesses[j + 1] =
                           Access("stat", NormalPath \o <<"/">> \o indexFiles[j])
                /\ response.accesses[k + 2] =
                       Access("open", NormalPath \o <<"/">> \o indexFiles[k])
                /\ response.status \in {200, 304}
                /\ response.stat = n
                /\ response.headers.ContentType =
                       <<IF k = 1 THEN "text/html" ELSE "application/xhtml+xml">>
                /\ response.headers.LastModified =
                       <<HttpDate(n.mtime \div TicksPerSec)>>
       ELSE /\ response.body = "listing" => listDir
            /\ listDir => (response.body = "listing" \/ response.status = 404)
            /\ ~listDir => response.status = 404

\* index.html is a directory, so index.xhtml is served, listing enabled
C6_Witness ==
    /\ DirectoryWithSlash
    /\ listDir
    /\ Qualifying = {2}
    /\ Lookup(fs, NormalNode.key \o <<indexFiles[1]>>) # NoFile
    /\ response.status = 200
    /\ response.stat.size = 1500

\* the entries of the directory the listing was rendered for
ListedEntries ==
    LET d == Stat(fs, response.path)
    IN  { n \in fs : Len(n.key) = Len(d.key) + 1
                     /\ SubSeq(n.key, 1, Len(d.key)) = d.key }

EntryName(n) == n.key[Len(n.key)]

\* the rows of the listing that link to entry n
RowsOf(n) ==
    { k \in 1..Len(response.rows) :
          response.rows[k].href \in {EntryName(n), EntryName(n) \o <<"/">>} }

Rendered == Handled /\ response.body = "listing" /\ ~response.panicked

\* C7: a rendered listing has no row for an entry whose name starts with '.'
\* and exactly one row for every other entry of the directory.
C7_ListingRows ==
    Rendered
    => /\ \A n \in ListedEntries :
              Cardinality(RowsOf(n)) = IF EntryName(n)[1] = "." THEN 0 ELSE 1
       /\ \A k \in 1..Len(response.rows) :
              /\ response.rows[k].href[1] # "."
              /\ \E n \in ListedEntries : k \in RowsOf(n)

\* a listing of a directory with hidden and visible entries
C7_Witness ==
    /\ Rendered
    /\ \E n \in ListedEntries : EntryName(n)[1] = "."
    /\ \E n \in ListedEntries : EntryName(n)[1] # "." /\ n.isDir
    /\ \E n \in ListedEntries : EntryName(n)[1] # "." /\ ~n.isDir

C9_RenderFailureIs500 ==
    (Handled /\ response.body = "listing" /\ request.writeFails)
    => /\ ~response.panicked
       /\ response.status \in 500..599

\* the request can still write through the gzip writer it checked out
CanStillWrite(r) ==
    \/ pc[r] \in {"reset", "copy"}
    \/ \E k \in 1..Len(DeferredCalls) :
           /\ pc[r] = DeferPc(k)
           /\ \E j \in 1..k : DeferredCalls[j] = "close"

\* the request holds a writer it has not returned
CheckedOut(r) ==
    \/ CanStillWrite(r)
    \/ \E k \in 1..Len(DeferredCalls) :
           /\ pc[r] = DeferPc(k)
           /\ \E j \in 1..k : DeferredCalls[j] = "put"

\* C10: from checkout to its last write a gzip writer belongs to one request:
\* it is not in the pool, no other request holds it, it writes to its own
\* request's stream, and it is back in the pool (or checked out again) when
\* its request has returned.
C10_WriterExclusive ==
    \A r \in Units :
        /\ CanStillWrite(r)
           => /\ gz[r] \in 1..made
              /\ gz[r] \notin pool
              /\ \A q \in Units \ {r} : CheckedOut(q) => gz[q] # gz[r]
        /\ (CanStillWrite(r) /\ pc[r] # "reset") => target[gz[r]] = r
        /\ (pc[r] = "done" /\ gz[r] # NoWriter)
           => \/ gz[r] \in pool
              \/ \E q \in Units \ {r} : CheckedOut(q) /\ gz[q] = gz[r]

\* two requests compress at once, one of them through a writer that an
\* earlier, finished request returned to the pool
C10_Witness ==
    \E r, q, d \in Units :
        /\ r # q
        /\ pc[r] = "copy"
        /\ pc[q] = "copy"
        /\ pc[d] = "done"
        /\ gz[d] = gz[r]

====
